---- MODULE Spec2Model ----
(***************************************************************************)
(* Spaced-repetition scheduler (services/spacedRepetition.ts) and the      *)
(* card-schedule store with its due-card selectors (services/database.ts). *)
(*                                                                         *)
(* JavaScript numbers are IEEE-754 binary64.  The ease factor is a double  *)
(* and Math.round(interval * easeFactor) depends on its exact value, so    *)
(* doubles are modelled exactly: a double is [neg, m] where m is the       *)
(* magnitude as a natural number in units of 2^-60, written little-endian  *)
(* in four limbs of 20 bits (m[4] is the integer part).  Every arithmetic  *)
(* operation rounds to 53 significant bits, ties to even.  The magnitudes  *)
(* that occur stay below 2^13, which is what Round53 supports.             *)
(***************************************************************************)
EXTENDS Integers, Sequences, FiniteSets, TLC

\* ---------------------------------------------------------------- bounds
\* Number of calculateNextReview applications explored in a chain.
MaxReviews == 10

\* ------------------------------------------------- binary64 arithmetic
Base == 2^20

\* Carry propagation: limbs may be out of range (also negative) on entry.
Norm(c) ==
  LET t1 == c[1]
      t2 == c[2] + (t1 \div Base)
      t3 == c[3] + (t2 \div Base)
      t4 == c[4] + (t3 \div Base)
  IN  <<t1 % Base, t2 % Base, t3 % Base, t4>>

BigZero == <<0, 0, 0, 0>>
BigAdd(a, b) == Norm(<<a[1] + b[1], a[2] + b[2], a[3] + b[3], a[4] + b[4]>>)
\* a - b, for a >= b
BigSub(a, b) == Norm(<<a[1] - b[1], a[2] - b[2], a[3] - b[3], a[4] - b[4]>>)
\* a * k for a natural number k < 2^10
BigMulInt(a, k) == Norm(<<a[1] * k, a[2] * k, a[3] * k, a[4] * k>>)
BigLess(a, b) ==
  \/ a[4] < b[4]
  \/ a[4] = b[4] /\ a[3] < b[3]
  \/ a[4] = b[4] /\ a[3] = b[3] /\ a[2] < b[2]
  \/ a[4] = b[4] /\ a[3] = b[3] /\ a[2] = b[2] /\ a[1] < b[1]
BigLE(a, b) == ~BigLess(b, a)

\* Number of significant bits of a natural number below 2^31.
LimbBits(n) == CHOOSE e \in 0..31 : n < 2^e /\ (e = 0 \/ 2^(e - 1) <= n)
BitLen(a) ==
  IF a[4] # 0 THEN 60 + LimbBits(a[4])
  ELSE IF a[3] # 0 THEN 40 + LimbBits(a[3])
  ELSE IF a[2] # 0 THEN 20 + LimbBits(a[2])
  ELSE LimbBits(a[1])

\* Round an exact magnitude to the nearest binary64 (53 significant bits,
\* ties to even).  k is the number of low bits that do not fit.
Round53(a) ==
  LET k    == BitLen(a) - 53
      q    == 2^k
      low  == a[1] % q
      down == <<a[1] - low, a[2], a[3], a[4]>>
      odd  == IF k = 20 THEN a[2] % 2 = 1 ELSE (a[1] \div q) % 2 = 1
      up   == 2 * low > q \/ (2 * low = q /\ odd)
  IN  IF k <= 0 \/ low = 0 THEN a
      ELSE IF up THEN Norm(<<down[1] + q, down[2], down[3], down[4]>>)
      ELSE down

Dbl(neg, m) == [neg |-> neg, m |-> m]
\* An integer below 2^20 as a double (exact).
IntToDbl(n) == IF n < 0 THEN Dbl(TRUE, <<0, 0, 0, -n>>) ELSE Dbl(FALSE, <<0, 0, 0, n>>)
DblNeg(x) == IF x.m = BigZero THEN x ELSE Dbl(~x.neg, x.m)

\* x + y
DblAdd(x, y) ==
  IF x.neg = y.neg THEN Dbl(x.neg, Round53(BigAdd(x.m, y.m)))
  ELSE IF x.m = y.m THEN Dbl(FALSE, BigZero)
  ELSE IF BigLess(y.m, x.m) THEN Dbl(x.neg, Round53(BigSub(x.m, y.m)))
  ELSE Dbl(y.neg, Round53(BigSub(y.m, x.m)))
\* x - y
DblSub(x, y) == DblAdd(x, Dbl(~y.neg, y.m))
\* k * x for an integer 0 <= k < 2^10 (the integer operand is exact)
DblMulInt(k, x) ==
  IF k = 0 \/ x.m = BigZero THEN Dbl(FALSE, BigZero)
  ELSE Dbl(x.neg # (k < 0), Round53(BigMulInt(x.m, IF k < 0 THEN 0 - k ELSE k)))
DblLess(x, y) ==
  IF x.neg # y.neg THEN x.neg /\ ~(x.m = BigZero /\ y.m = BigZero)
  ELSE IF x.neg THEN BigLess(y.m, x.m) ELSE BigLess(x.m, y.m)
DblLE(x, y) == ~DblLess(y, x)
\* Math.max
MathMax(x, y) == IF DblLess(x, y) THEN y ELSE x
\* Math.round of a non-negative double: the nearest integer, halves go up.
MathRound(x) ==
  IF x.m[3] >= Base \div 2 THEN x.m[4] + 1 ELSE x.m[4]
\* Math.min on integers
MathMin(a, b) == IF a < b THEN a ELSE b

\* The binary64 values of the decimal literals of the source.
D2_5  == Dbl(FALSE, <<0, 0, 524288, 2>>)
D1_3  == Dbl(FALSE, <<838912, 838860, 314572, 1>>)
D0_1  == Dbl(FALSE, <<629152, 629145, 104857, 0>>)
D0_08 == Dbl(FALSE, <<83888, 83886, 83886, 0>>)
D0_02 == Dbl(FALSE, <<545260, 545259, 20971, 0>>)

\* The ease factor in hundredths, rounded to the nearest (for reading states).
Hundredths(x) == LET p == BigMulInt(x.m, 100) IN
  IF p[3] >= Base \div 2 THEN p[4] + 1 ELSE p[4]

\* ------------------------------------------------------------- time
\* Time is counted in ticks; a day has TicksPerDay of them.
TicksPerDay == 2

\* Date.prototype.toISOString: "YYYY-MM-DDTHH:mm:ss.sssZ", a fixed-width
\* string, modelled as <<date part, time-of-day part>> (UTC).
ToISOString(t) == <<t \div TicksPerDay, t % TicksPerDay>>
\* Order of two such strings as text (SQLite's BINARY collation on TEXT and
\* String.prototype.localeCompare agree on these fixed-width digit strings).
StrLess(a, b) == a[1] < b[1] \/ (a[1] = b[1] /\ a[2] < b[2])
StrLE(a, b) == ~StrLess(b, a)
LocaleCompare(a, b) == IF StrLess(a, b) THEN -1 ELSE IF StrLess(b, a) THEN 1 ELSE 0
\* date-fns addDays
AddDays(t, amount) == t + amount * TicksPerDay

\* ----------------------------------------------------------- scheduler
MaxInterval == 365
Scores == 1..5

\* 0.1 - (5 - score) * (0.08 + (5 - score) * 0.02), for every number the
\* model passes as a score
EaseDeltas == [score \in 0..6 |->
  DblSub(D0_1, DblMulInt(5 - score, DblAdd(D0_08, DblMulInt(5 - score, D0_02))))]
EaseDelta(score) == EaseDeltas[score]

\* The ease factor after a successful review.
EaseNoFloor(score, easeFactor) == DblAdd(easeFactor, EaseDelta(score))
\* the ease factor held at 3 from above
EaseCeiling(score, easeFactor) ==
  LET sum == DblAdd(easeFactor, EaseDelta(score))
  IN  MathMax(D1_3, IF DblLess(IntToDbl(3), sum) THEN IntToDbl(3) ELSE sum)
adjustEase(score, easeFactor) ==
  MathMax(D1_3, DblAdd(easeFactor, EaseDelta(score)))

\* The interval after a successful review, from the incremented repetitions
\* and the interval and ease factor of the current schedule.
GrowSM2(repetitions, interval, easeFactor) ==
  IF repetitions = 1 THEN 1
  ELSE IF repetitions = 2 THEN 6
  ELSE MathRound(DblMulInt(interval, easeFactor))
\* the first successful review leaves the card due the same day
GrowSameDay(repetitions, interval, easeFactor) ==
  IF repetitions = 1 THEN 0
  ELSE IF repetitions = 2 THEN 3
  ELSE MathRound(DblMulInt(interval, easeFactor))
growInterval(repetitions, interval, easeFactor) ==
  IF repetitions = 1 THEN 1
  ELSE IF repetitions = 2 THEN 3
  ELSE MathRound(DblMulInt(interval, easeFactor))

\* Variants of calculateNextReview, each with one change.
CalcNoCap(score, currentSchedule, now) ==
  LET lapse       == score < 3
      repetitions == IF lapse THEN 0 ELSE currentSchedule.repetitions + 1
      interval    == IF lapse THEN 1
                     ELSE growInterval(repetitions, currentSchedule.interval,
                                       currentSchedule.easeFactor)
      easeFactor  == IF lapse THEN currentSchedule.easeFactor
                     ELSE adjustEase(score, currentSchedule.easeFactor)
  IN  [questionId     |-> currentSchedule.questionId,
       nextReviewDate |-> ToISOString(AddDays(now, interval)),
       easeFactor     |-> easeFactor,
       interval       |-> interval,
       repetitions    |-> repetitions]
CalcLapseBelow(threshold, keepInterval, lapseEase, score, currentSchedule, now) ==
  LET lapse       == score < threshold
      repetitions == IF lapse THEN 0 ELSE currentSchedule.repetitions + 1
      grown       == IF lapse
                     THEN (IF keepInterval THEN currentSchedule.interval ELSE 1)
                     ELSE growInterval(repetitions, currentSchedule.interval,
                                       currentSchedule.easeFactor)
      easeFactor  == IF lapse /\ ~lapseEase THEN currentSchedule.easeFactor
                     ELSE adjustEase(score, currentSchedule.easeFactor)
      interval    == MathMin(grown, MaxInterval)
  IN  [questionId     |-> currentSchedule.questionId,
       nextReviewDate |-> ToISOString(AddDays(now, interval)),
       easeFactor     |-> easeFactor,
       interval       |-> interval,
       repetitions    |-> repetitions]
\* score 2 counts as a success
CalcLapseBelow2(score, currentSchedule, now) ==
  CalcLapseBelow(2, FALSE, FALSE, score, currentSchedule, now)
\* score 3 counts as a lapse
CalcLapseBelow4(score, currentSchedule, now) ==
  CalcLapseBelow(4, FALSE, FALSE, score, currentSchedule, now)
\* a lapse lowers the ease factor, as in textbook SM-2
CalcLapseEase(score, currentSchedule, now) ==
  CalcLapseBelow(3, FALSE, TRUE, score, currentSchedule, now)
\* the date is computed from the interval before the cap
CalcDateBeforeCap(score, currentSchedule, now) ==
  LET lapse       == score < 3
      repetitions == IF lapse THEN 0 ELSE currentSchedule.repetitions + 1
      grown       == IF lapse THEN 1
                     ELSE growInterval(repetitions, currentSchedule.interval,
                                       currentSchedule.easeFactor)
      easeFactor  == IF lapse THEN currentSchedule.easeFactor
                     ELSE adjustEase(score, currentSchedule.easeFactor)
  IN  [questionId     |-> currentSchedule.questionId,
       nextReviewDate |-> ToISOString(AddDays(now, grown)),
       easeFactor     |-> easeFactor,
       interval       |-> MathMin(grown, MaxInterval),
       repetitions    |-> repetitions]

calculateNextReview(score, currentSchedule, now) ==
  LET lapse       == score < 3
      repetitions == IF lapse THEN 0 ELSE currentSchedule.repetitions + 1
      grown       == IF lapse THEN 1
                     ELSE growInterval(repetitions, currentSchedule.interval,
                                       currentSchedule.easeFactor)
      easeFactor  == IF lapse THEN currentSchedule.easeFactor
                     ELSE adjustEase(score, currentSchedule.easeFactor)
      interval    == MathMin(grown, MaxInterval)
  IN  [questionId     |-> currentSchedule.questionId,
       nextReviewDate |-> ToISOString(AddDays(now, interval)),
       easeFactor     |-> easeFactor,
       interval       |-> interval,
       repetitions    |-> repetitions]

createInitialSchedule(questionId, now) ==
  [questionId     |-> questionId,
   nextReviewDate |-> ToISOString(now),
   easeFactor     |-> D2_5,
   interval       |-> 0,
   repetitions    |-> 0]

\* ------------------------------------------------------------ state
VARIABLES
  clock,          \* the wall clock, in ticks
  schedule,       \* scheduler on its own: the schedule last returned
  lastIn,         \* scheduler on its own: the schedule last passed in
  lastScore,      \* scheduler on its own: the score last passed in (0: none)
  reviews,        \* number of calculateNextReview calls made
  questions,      \* table questions: id -> [category, isCustom]
  card_schedules, \* table card_schedules: question_id -> CardSchedule
  selCall,        \* the latest selector call: [op, now, preferredCategories]
  dueCards,       \* its array of {schedule, category} after sorting
  returned,       \* the sequence of schedules it returned
  earlier,        \* the selector call before it, kept for comparison
  user_stats,     \* table user_stats, row 1: streaks and last practice date
  tz,             \* the device's time zone: local time - UTC, in ticks
  streakCall,     \* updateStreak calls in progress: [pc, stats]
  lastEnd,        \* the latest updateStreak call that has completed
  user_preferences, \* table user_preferences, row 1, or Null for no row
  practiceState,  \* PracticeScreen's state: [status] or [status, question]
  session,        \* PracticeScreen: timer, promises in flight, session ends
  retry,          \* one withRetry call: position, attempts and their outcomes
  connection      \* database.ts: the module's db and the getDatabase callers

schedVars == <<schedule, lastIn, lastScore, reviews>>
storeVars == <<questions, card_schedules>>
selVars   == <<selCall, dueCards, returned>>
practiceVars == <<user_preferences, practiceState>>
procVars == <<session, retry, connection>>
extVars   == <<earlier, user_stats, tz, streakCall, lastEnd,
               user_preferences, practiceState, session, retry, connection>>
vars == <<clock, schedule, lastIn, lastScore, reviews,
          questions, card_schedules, selCall, dueCards, returned,
          earlier, user_stats, tz, streakCall, lastEnd,
          user_preferences, practiceState, session, retry, connection>>

QIds == {"q1", "q2", "q3"}
Categories == {"statistics", "sql"}

NoCall == [op |-> "none"]
NoEarlier == [call |-> NoCall, returned |-> <<>>]

\* NULL in a TEXT column, and the user_stats row initDatabase inserts
Null == <<>>
InitialStats == [current_streak |-> 0, longest_streak |-> 0,
                 last_practice_date |-> Null]
\* endPracticeSession calls that can be in progress at the same time
Sessions == {1, 2}
NoStreakCall == [pc |-> "idle", stats |-> InitialStats]
NoEnd == [done |-> FALSE]
StatsIdle ==
  /\ user_stats = InitialStats
  /\ tz = 0
  /\ streakCall = [p \in Sessions |-> NoStreakCall]
  /\ lastEnd = NoEnd
\* No onboarding yet, and useState<PracticeState>({status: 'loading'})
PracticeIdle ==
  /\ user_preferences = Null
  /\ practiceState = [status |-> "loading"]
\* No practice screen mounted, no withRetry call and no getDatabase call in
\* progress; the database is open and initialised.
Callers == {1, 2, 3}
NoSession == [mounted |-> FALSE, expired |-> FALSE, paused |-> FALSE,
              pending |-> {}, endCalls |-> 0]
NoRetry == [pc |-> "idle", attempt |-> 0, outcomes |-> <<>>,
            delay |-> 0, result |-> Null]
CURRENT_SCHEMA_VERSION == 5
NoCallers == [pc |-> [p \in Callers |-> "idle"],
              currentVersion |-> [p \in Callers |-> 0],
              handed |-> [p \in Callers |-> "nothing"]]
Initialised == [db |-> TRUE, version |-> CURRENT_SCHEMA_VERSION,
                creates |-> 1, seeds |-> 1] @@ NoCallers
ProcIdle ==
  /\ session = NoSession
  /\ retry = NoRetry
  /\ connection = Initialised
\* No database and no selector call: the scheduler is exercised on its own.
StoreIdle ==
  /\ questions = <<>>
  /\ card_schedules = <<>>
  /\ selCall = NoCall
  /\ dueCards = <<>>
  /\ returned = <<>>
  /\ earlier = NoEarlier
  /\ StatsIdle
  /\ PracticeIdle
  /\ ProcIdle

\* ------------------------------------------- the scheduler on its own
\* One application of calculateNextReview to the schedule it last returned.
Review(score) ==
  /\ reviews < MaxReviews
  /\ schedule' = calculateNextReview(score, schedule, clock)
  /\ lastIn' = schedule
  /\ lastScore' = score
  /\ reviews' = reviews + 1
  /\ UNCHANGED <<clock, storeVars, selVars, extVars>>

NextReview == \E score \in Scores : Review(score)

\* Reviews of one card starting from the schedule of a new card.
InitChain ==
  /\ clock = 0
  /\ schedule = createInitialSchedule("q1", 0)
  /\ lastIn = schedule
  /\ lastScore = 0
  /\ reviews = 0
  /\ StoreIdle

SpecChain == InitChain /\ [][NextReview]_vars

\* calculateNextReview applied once to any stored schedule.  The table
\* admits ease_factor >= 1.3, interval >= 0, repetitions >= 0.
D1_5  == Dbl(FALSE, <<0, 0, 524288, 1>>)
D3    == IntToDbl(3)
\* 2.1399999999999997, the ease factor after scores 5, 5, 3, 3, 3, 3
D2_14 == adjustEase(3, adjustEase(3, adjustEase(3, adjustEase(3,
           adjustEase(5, adjustEase(5, D2_5))))))
EaseInputs == {D1_3, D1_5, D2_14, D2_5, DblAdd(D2_5, D0_1), D3}
IntervalInputs == {0, 1, 3, 6, 10, 75, 200, 365}
MaxRepsInput == 3
MaxClockInput == 1

Apply(score) ==
  /\ lastScore = 0
  /\ schedule' = calculateNextReview(score, schedule, clock)
  /\ lastIn' = schedule
  /\ lastScore' = score
  /\ reviews' = reviews + 1
  /\ UNCHANGED <<clock, storeVars, selVars, extVars>>

NextApply == \E score \in Scores : Apply(score)

InitCalc ==
  /\ clock \in 0..MaxClockInput
  /\ \E q \in {"q1", "q2"}, e \in EaseInputs, i \in IntervalInputs,
        r \in 0..MaxRepsInput, d \in 0..MaxClockInput :
       schedule = [questionId |-> q, nextReviewDate |-> ToISOString(d),
                   easeFactor |-> e, interval |-> i, repetitions |-> r]
  /\ lastIn = schedule
  /\ lastScore = 0
  /\ reviews = 0
  /\ StoreIdle

SpecCalc == InitCalc /\ [][NextApply]_vars

\* calculateNextReview applied once to any stored schedule with any number
\* from 0 to 6 as the score (score: number is not checked by the function).
AnyScores == 0..6
ApplyAny(score) ==
  /\ reviews = 0
  /\ schedule' = calculateNextReview(score, schedule, clock)
  /\ lastIn' = schedule
  /\ lastScore' = score
  /\ reviews' = 1
  /\ UNCHANGED <<clock, storeVars, selVars, extVars>>

NextApplyAny == \E score \in AnyScores : ApplyAny(score)

SpecAnyScore == InitCalc /\ [][NextApplyAny]_vars

\* -------------------------------------------------------- the database
\* Last tick of the clock, and the number of reviews saved, in the store model.
MaxClock == 2
MaxSaves == 2

\* The preference lists passed to getDueCardsWithPriority: every list of at
\* most MaxPrefs entries over the onboarding categories (the stored list is not
\* deduplicated anywhere: PreferencesReviewScreen keeps the suggested list as
\* the grading service returned it).
MaxPrefs == 3
PrefCategories == {"statistics", "sql"}
PrefLists == UNION {[1..n -> PrefCategories] : n \in 0..MaxPrefs}

\* The questions seeded by initDatabase (is_custom = 0).
SeedCategory == ("q1" :> "statistics") @@ ("q2" :> "sql")

\* INSERT INTO card_schedules ... VALUES (?, ?, 2.5, 0, 0)
InitialRow(id, now) ==
  [questionId     |-> id,
   nextReviewDate |-> ToISOString(now),
   easeFactor     |-> D2_5,
   interval       |-> 0,
   repetitions    |-> 0]

Remove(f, ids) == [x \in (DOMAIN f) \ ids |-> f[x]]

\* WHERE cs.next_review_date <= ? over card_schedules JOIN questions
DueIdsAll(date) == (DOMAIN card_schedules) \cap (DOMAIN questions)
DueIds(date) ==
  {id \in (DOMAIN card_schedules) \cap (DOMAIN questions) :
     StrLE(card_schedules[id].nextReviewDate, date)}

\* ORDER BY cs.next_review_date ASC: the rows in ascending date order; SQL
\* leaves the order of rows with equal dates open.
RowOrders(ids) ==
  {s \in [1..Cardinality(ids) -> ids] :
     /\ \A i, j \in DOMAIN s : i # j => s[i] # s[j]
     /\ \A i, j \in DOMAIN s : i < j =>
          StrLE(card_schedules[s[i]].nextReviewDate,
                card_schedules[s[j]].nextReviewDate)}

\* priorityMap.get(cat): new Map(list.map((cat, idx) => [cat, idx])) keeps,
\* for a category listed twice, the index of its last occurrence.
PriorityGet(preferredCategories, cat) ==
  (CHOOSE i \in DOMAIN preferredCategories :
     /\ preferredCategories[i] = cat
     /\ \A j \in DOMAIN preferredCategories :
          preferredCategories[j] = cat => j <= i) - 1

\* The comparator passed to dueCards.sort
CompareByDateOnly(a, b, preferredCategories) ==
  LocaleCompare(a.schedule.nextReviewDate, b.schedule.nextReviewDate)
CompareDateDescending(a, b, preferredCategories) ==
  LET preferredSet == {preferredCategories[i] : i \in DOMAIN preferredCategories}
      aPreferred   == a.category \in preferredSet
      bPreferred   == b.category \in preferredSet
  IN  IF aPreferred /\ ~bPreferred THEN -1
      ELSE IF ~aPreferred /\ bPreferred THEN 1
      ELSE IF /\ aPreferred /\ bPreferred
              /\ PriorityGet(preferredCategories, a.category)
                   # PriorityGet(preferredCategories, b.category)
      THEN PriorityGet(preferredCategories, a.category)
             - PriorityGet(preferredCategories, b.category)
      ELSE LocaleCompare(b.schedule.nextReviewDate, a.schedule.nextReviewDate)
compareDueCards(a, b, preferredCategories) ==
  LET preferredSet == {preferredCategories[i] : i \in DOMAIN preferredCategories}
      aPreferred   == a.category \in preferredSet
      bPreferred   == b.category \in preferredSet
  IN  IF aPreferred /\ ~bPreferred THEN -1
      ELSE IF ~aPreferred /\ bPreferred THEN 1
      ELSE IF /\ aPreferred /\ bPreferred
              /\ PriorityGet(preferredCategories, a.category)
                   # PriorityGet(preferredCategories, b.category)
      THEN PriorityGet(preferredCategories, a.category)
             - PriorityGet(preferredCategories, b.category)
      ELSE LocaleCompare(a.schedule.nextReviewDate, b.schedule.nextReviewDate)

\* Array.prototype.sort with that comparator (a stable sort): each element
\* goes before the first already placed element that compares greater.
RECURSIVE InsertSorted(_, _, _)
InsertSorted(sorted, x, preferredCategories) ==
  IF sorted = <<>> THEN <<x>>
  ELSE IF compareDueCards(x, Head(sorted), preferredCategories) < 0
       THEN <<x>> \o sorted
       ELSE <<Head(sorted)>> \o InsertSorted(Tail(sorted), x, preferredCategories)
RECURSIVE ArraySort(_, _)
ArraySort(array, preferredCategories) ==
  IF array = <<>> THEN <<>>
  ELSE InsertSorted(ArraySort(SubSeq(array, 1, Len(array) - 1), preferredCategories),
                    array[Len(array)], preferredCategories)

Snapshot == [questions |-> questions, card_schedules |-> card_schedules]
\* A selector's result is a value handed to its caller: it is held until the
\* caller has taken it, and no other operation is started meanwhile.
Idle == selCall = NoCall
NoResult == selCall' = NoCall /\ dueCards' = <<>> /\ returned' = <<>>

ResultTaken ==
  /\ ~Idle
  /\ NoResult
  /\ UNCHANGED <<clock, schedVars, storeVars, extVars>>

Tick ==
  /\ Idle
  /\ clock < MaxClock
  /\ clock' = clock + 1
  /\ NoResult
  /\ UNCHANGED <<schedVars, storeVars, extVars>>

\* GenerateQuestionsScreen.handleSaveAll -> addQuestion (isCustom: true)
AddQuestion(category) ==
  \E id \in QIds \ DOMAIN questions :
    /\ Idle
    /\ questions' = (id :> [category |-> category, isCustom |-> TRUE]) @@ questions
    /\ card_schedules' = (id :> InitialRow(id, clock)) @@ card_schedules
    /\ NoResult
    /\ UNCHANGED <<clock, schedVars, extVars>>

\* QuestionDetailScreen.handleDelete -> deleteQuestion; the schedule row goes
\* with the question (ON DELETE CASCADE).
DeleteQuestion(id) ==
  /\ Idle
  /\ id \in DOMAIN questions
  /\ questions[id].isCustom
  /\ questions' = Remove(questions, {id})
  /\ card_schedules' = Remove(card_schedules, {id})
  /\ NoResult
  /\ UNCHANGED <<clock, schedVars, extVars>>

\* PracticeScreen.saveReview for the question on screen, a card that was due
\* when it was loaded: the schedule is computed from a fresh default schedule
\* and written by updateCardSchedule.
SaveReview(id, score) ==
  /\ Idle
  /\ reviews < MaxSaves
  /\ id \in DueIds(ToISOString(clock))
  /\ LET currentSchedule == [questionId     |-> id,
                             nextReviewDate |-> ToISOString(clock),
                             easeFactor     |-> D2_5,
                             interval       |-> 0,
                             repetitions    |-> 0]
         newSchedule == calculateNextReview(score, currentSchedule, clock)
     IN  /\ card_schedules' = [card_schedules EXCEPT ![id] = newSchedule]
         /\ UNCHANGED <<schedule, lastIn, lastScore>>
  /\ reviews' = reviews + 1
  /\ NoResult
  /\ UNCHANGED <<clock, questions, extVars>>

\* resetAllProgress with DELETE FROM card_schedules in place of the UPDATE
ResetRemovesSchedules ==
  /\ Idle
  /\ card_schedules' = <<>>
  /\ user_stats' = [user_stats EXCEPT !.current_streak = 0,
                                      !.last_practice_date = Null]
  /\ NoResult
  /\ UNCHANGED <<clock, schedVars, questions, earlier, tz, streakCall, lastEnd,
                 practiceVars, procVars>>
\* SettingsScreen -> resetAllProgress
ResetAllProgress ==
  /\ Idle
  /\ card_schedules' =
       [id \in DOMAIN card_schedules |->
          [questionId     |-> id,
           nextReviewDate |-> ToISOString(clock),
           easeFactor     |-> D2_5,
           interval       |-> 0,
           repetitions    |-> 0]]
  /\ user_stats' = [user_stats EXCEPT !.current_streak = 0,
                                      !.last_practice_date = Null]
  /\ NoResult
  /\ UNCHANGED <<clock, schedVars, questions, earlier, tz, streakCall, lastEnd,
                 practiceVars, procVars>>

GetDueCards ==
  LET date == ToISOString(clock) IN
  /\ Idle
  /\ \E rows \in RowOrders(DueIds(date)) :
    /\ selCall' = [op |-> "getDueCards", now |-> date,
                   preferredCategories |-> <<>>, store |-> Snapshot]
    /\ dueCards' = <<>>
    /\ returned' = [i \in DOMAIN rows |-> card_schedules[rows[i]]]
    /\ UNCHANGED <<clock, schedVars, storeVars, extVars>>

GetDueCardsWithPriority(preferredCategories) ==
  LET now == ToISOString(clock) IN
  /\ Idle
  /\ \E rows \in RowOrders(DueIds(now)) :
    LET unsorted == [i \in DOMAIN rows |->
                       [schedule |-> card_schedules[rows[i]],
                        category |-> questions[rows[i]].category]]
    IN  \E sorted \in {ArraySort(unsorted, preferredCategories)} :
        /\ selCall' = [op |-> "getDueCardsWithPriority", now |-> now,
                       preferredCategories |-> preferredCategories,
                       store |-> Snapshot]
        /\ dueCards' = sorted
        /\ returned' = [i \in DOMAIN sorted |-> sorted[i].schedule]
        /\ UNCHANGED <<clock, schedVars, storeVars, extVars>>

Init ==
  /\ clock = 0
  /\ schedule = createInitialSchedule("q1", 0)
  /\ lastIn = schedule
  /\ lastScore = 0
  /\ reviews = 0
  /\ questions = [id \in DOMAIN SeedCategory |->
                    [category |-> SeedCategory[id], isCustom |-> FALSE]]
  /\ card_schedules = [id \in DOMAIN SeedCategory |-> InitialRow(id, 0)]
  /\ selCall = NoCall
  /\ dueCards = <<>>
  /\ returned = <<>>
  /\ earlier = NoEarlier
  /\ StatsIdle
  /\ PracticeIdle
  /\ ProcIdle

Next ==
  \/ Tick
  \/ \E category \in Categories : AddQuestion(category)
  \/ \E id \in QIds : DeleteQuestion(id)
  \/ \E id \in QIds, score \in Scores : SaveReview(id, score)
  \/ ResetAllProgress
  \/ GetDueCards
  \/ \E preferredCategories \in PrefLists :
       GetDueCardsWithPriority(preferredCategories)
  \/ ResultTaken

Spec == Init /\ [][Next]_vars

\* ------------------------------------------ the selector called twice
\* The caller keeps the result of one selector call and calls a selector
\* again; it drops both results after the second call.
ResultKept ==
  /\ ~Idle
  /\ earlier = NoEarlier
  /\ earlier' = [call |-> selCall, returned |-> returned]
  /\ NoResult
  /\ UNCHANGED <<clock, schedVars, storeVars, user_stats, tz, streakCall, lastEnd,
                 practiceVars, procVars>>

ResultsDropped ==
  /\ ~Idle
  /\ earlier # NoEarlier
  /\ earlier' = NoEarlier
  /\ NoResult
  /\ UNCHANGED <<clock, schedVars, storeVars, user_stats, tz, streakCall, lastEnd,
                 practiceVars, procVars>>

NextRepeat ==
  \/ earlier = NoEarlier /\ Tick
  \/ earlier = NoEarlier /\ \E category \in Categories : AddQuestion(category)
  \/ GetDueCards
  \/ \E preferredCategories \in PrefLists :
       GetDueCardsWithPriority(preferredCategories)
  \/ ResultKept
  \/ ResultsDropped

SpecRepeat == Init /\ [][NextRepeat]_vars

\* ------------------------------------------------------------ streaks
\* Last tick of the clock in the streak model, and the time zones drawn
\* (UTC-12, UTC, UTC+12).
MaxStreakTicks == 7
TzOffsets == {0 - 1, 0, 1}

\* toISOString().split('T')[0]
DatePart(iso) == iso[1]
\* yesterday.setDate(yesterday.getDate() - 1): one day back on the local
\* calendar, at the same local time of day (time zones are fixed offsets).
SetDateBack(t, offset) == ((t + offset) - TicksPerDay) - offset

\* The row updateStreak writes, from the stats it read, when the last
\* practice date is not today.
StreakNoMax(stats, now, offset) ==
  LET hasLast      == stats.last_practice_date # Null
      lastDate     == DatePart(stats.last_practice_date)
      yesterdayStr == DatePart(ToISOString(SetDateBack(now, offset)))
      newStreak    == IF hasLast /\ lastDate = yesterdayStr
                      THEN stats.current_streak + 1
                      ELSE 1
  IN  [current_streak     |-> newStreak,
       longest_streak     |-> stats.longest_streak,
       last_practice_date |-> ToISOString(now)]
newStats(stats, now, offset) ==
  LET hasLast      == stats.last_practice_date # Null
      lastDate     == DatePart(stats.last_practice_date)
      yesterdayStr == DatePart(ToISOString(SetDateBack(now, offset)))
      newStreak    == IF hasLast /\ lastDate = yesterdayStr
                      THEN stats.current_streak + 1
                      ELSE 1
      newLongest   == IF newStreak >= stats.longest_streak
                      THEN newStreak
                      ELSE stats.longest_streak
  IN  [current_streak     |-> newStreak,
       longest_streak     |-> newLongest,
       last_practice_date |-> ToISOString(now)]

\* lastDate === today
PracticedToday(stats, now) ==
  /\ stats.last_practice_date # Null
  /\ DatePart(stats.last_practice_date) = DatePart(ToISOString(now))

StreakTick ==
  /\ clock < MaxStreakTicks
  /\ clock' = clock + 1
  /\ UNCHANGED <<schedVars, storeVars, selVars, extVars>>

\* endPracticeSession -> updateStreak, up to the row getUserStats returns
UpdateStreakRead(p) ==
  /\ streakCall[p].pc = "idle"
  /\ streakCall' = [streakCall EXCEPT ![p] = [pc |-> "read", stats |-> user_stats]]
  /\ UNCHANGED <<clock, schedVars, storeVars, selVars,
                 earlier, user_stats, tz, lastEnd, practiceVars, procVars>>

\* updateStreak from there to its end: it returns, or computes the new row
\* from the stats it read and writes it.
UpdateStreakWrite(p) ==
  /\ streakCall[p].pc = "read"
  /\ LET stats == streakCall[p].stats IN
       /\ user_stats' = IF PracticedToday(stats, clock)
                        THEN user_stats
                        ELSE newStats(stats, clock, tz)
       /\ lastEnd' = [done |-> TRUE, stats |-> stats, before |-> user_stats,
                      now |-> clock, after |-> user_stats']
  /\ streakCall' = [streakCall EXCEPT ![p] = NoStreakCall]
  /\ UNCHANGED <<clock, schedVars, storeVars, selVars, earlier, tz, practiceVars, procVars>>

InitStreak ==
  /\ clock = 0
  /\ schedule = createInitialSchedule("q1", 0)
  /\ lastIn = schedule
  /\ lastScore = 0
  /\ reviews = 0
  /\ questions = <<>>
  /\ card_schedules = <<>>
  /\ selCall = NoCall
  /\ dueCards = <<>>
  /\ returned = <<>>
  /\ earlier = NoEarlier
  /\ user_stats = InitialStats
  /\ tz \in TzOffsets
  /\ streakCall = [p \in Sessions |-> NoStreakCall]
  /\ lastEnd = NoEnd
  /\ PracticeIdle
  /\ ProcIdle

NextStreak ==
  \/ StreakTick
  \/ \E p \in Sessions : UpdateStreakRead(p)
  \/ \E p \in Sessions : UpdateStreakWrite(p)
  \/ ResetAllProgress

SpecStreak == InitStreak /\ [][NextStreak]_vars

\* ---------------------------------------------------- practice session
\* OnboardingChatScreen / PreferencesReviewScreen -> saveUserPreferences:
\* INSERT ... ON CONFLICT(id) DO UPDATE of row 1.
SaveUserPreferences(preferredCategories) ==
  /\ Idle
  /\ user_preferences' = [preferredCategories |-> preferredCategories]
  /\ UNCHANGED <<clock, schedVars, storeVars, selVars,
                 earlier, user_stats, tz, streakCall, lastEnd, practiceState,
                 procVars>>

\* PracticeScreen.loadNextQuestion: getDueCards(), then 'no_cards' for an
\* empty result and otherwise 'answering' with the question of dueCards[0].
LoadNextQuestion ==
  LET date == ToISOString(clock) IN
  /\ Idle
  /\ \E rows \in RowOrders(DueIds(date)) :
    /\ selCall' = [op |-> "getDueCards", now |-> date,
                   preferredCategories |-> <<>>, store |-> Snapshot]
    /\ dueCards' = <<>>
    /\ returned' = [i \in DOMAIN rows |-> card_schedules[rows[i]]]
    /\ practiceState' =
         IF rows = <<>>
         THEN [status |-> "no_cards"]
         ELSE [status |-> "answering", question |-> rows[1]]
  /\ UNCHANGED <<clock, schedVars, storeVars,
                 earlier, user_stats, tz, streakCall, lastEnd, user_preferences,
                 procVars>>

NextPractice ==
  \/ Tick
  \/ \E category \in Categories : AddQuestion(category)
  \/ \E id \in QIds : DeleteQuestion(id)
  \/ \E id \in QIds, score \in Scores : SaveReview(id, score)
  \/ \E preferredCategories \in PrefLists :
       SaveUserPreferences(preferredCategories)
  \/ LoadNextQuestion
  \/ ResultTaken

SpecPractice == Init /\ [][NextPractice]_vars

\* ------------------------------------------- questions and schedules
\* addQuestion whose second runAsync rejects, or that is cut off before it:
\* the two INSERTs are not in a transaction, the question row stays.
AddQuestionInterrupted(category) ==
  \E id \in QIds \ DOMAIN questions :
    /\ Idle
    /\ questions' = (id :> [category |-> category, isCustom |-> TRUE]) @@ questions
    /\ NoResult
    /\ UNCHANGED <<clock, schedVars, card_schedules, extVars>>

\* deleteCustomQuestions: DELETE FROM questions WHERE is_custom = 1, and the
\* schedule rows of those questions with them (ON DELETE CASCADE).
DeleteCustomQuestions ==
  LET custom == {id \in DOMAIN questions : questions[id].isCustom} IN
  /\ Idle
  /\ questions' = Remove(questions, custom)
  /\ card_schedules' = Remove(card_schedules, custom)
  /\ NoResult
  /\ UNCHANGED <<clock, schedVars, extVars>>

\* The operations that add, change and remove questions and schedules,
\* every addQuestion running to its end.
NextSchedules ==
  \/ Tick
  \/ \E category \in Categories : AddQuestion(category)
  \/ \E id \in QIds : DeleteQuestion(id)
  \/ DeleteCustomQuestions
  \/ \E id \in QIds, score \in Scores : SaveReview(id, score)
  \/ ResetAllProgress

SpecSchedules == Init /\ [][NextSchedules]_vars

\* The same with addQuestion calls that stop after their first INSERT.
NextQuestions ==
  \/ NextSchedules
  \/ \E category \in Categories : AddQuestionInterrupted(category)

SpecQuestions == Init /\ [][NextQuestions]_vars

\* ------------------------------------------------------ perfect reviews
\* One of the seeded cards answered with score 5 every time, at any review
\* times: the reviews go on until MaxReviews of them have been made.
InitFives ==
  /\ clock = 0
  /\ \E id \in DOMAIN SeedCategory : schedule = createInitialSchedule(id, 0)
  /\ lastIn = schedule
  /\ lastScore = 0
  /\ reviews = 0
  /\ StoreIdle

NextFives ==
  \/ Tick
  \/ Review(5)

SpecFives == InitFives /\ [][NextFives]_vars /\ WF_vars(Review(5))

\* ------------------------------------------------------ practice screen
\* PracticeScreen with its session timer. session.pending holds the promises
\* the screen is awaiting, each with the question its handler had in hand;
\* session.endCalls counts the endPracticeSession calls made.
MaxEndCalls == 2
\* and MaxInFlight bounds the promises it awaits at one time.
MaxInFlight == 2

Pending(op, question) == [op |-> op, question |-> question]
Mounted == session.mounted
Status == practiceState.status
OnScreen == IF "question" \in DOMAIN practiceState
            THEN practiceState.question ELSE Null
Settled(p) == session.pending \ {p}
CanAwait == Cardinality(session.pending) < MaxInFlight

screenRest == <<schedVars, questions, selVars, earlier, tz, streakCall,
                lastEnd, user_preferences, retry, connection>>

\* The screen has just been mounted: useState({status: 'loading'}), and the
\* mount effect has called loadNextQuestion() and timer.start().
InitScreen ==
  /\ clock = 0
  /\ schedule = createInitialSchedule("q1", 0)
  /\ lastIn = schedule
  /\ lastScore = 0
  /\ reviews = 0
  /\ questions = [id \in DOMAIN SeedCategory |->
                    [category |-> SeedCategory[id], isCustom |-> FALSE]]
  /\ card_schedules = [id \in DOMAIN SeedCategory |-> InitialRow(id, 0)]
  /\ selCall = NoCall
  /\ dueCards = <<>>
  /\ returned = <<>>
  /\ earlier = NoEarlier
  /\ StatsIdle
  /\ user_preferences = Null
  /\ practiceState = [status |-> "loading"]
  /\ session = [mounted |-> TRUE, expired |-> FALSE, paused |-> FALSE,
                pending |-> {Pending("load", Null)}, endCalls |-> 0]
  /\ retry = NoRetry
  /\ connection = Initialised

\* "Next Question" in the feedback view and "Try Again" in the error view:
\* loadNextQuestion up to its first await.
PressLoadNext ==
  /\ Mounted
  /\ CanAwait
  /\ \/ Status = "feedback"
     \/ Status = "error" /\ practiceState.retryable
  /\ practiceState' = [status |-> "loading"]
  /\ session' = [session EXCEPT !.pending = @ \cup {Pending("load", Null)}]
  /\ UNCHANGED <<clock, card_schedules, user_stats, screenRest>>

\* loadNextQuestion after its awaits: no_cards, answering with the first due
\* card and timer.resume() (which does nothing at 0 seconds), or the catch.
LoadSettles ==
  LET p == Pending("load", Null)
      date == ToISOString(clock) IN
  /\ Mounted
  /\ p \in session.pending
  /\ \/ /\ DueIds(date) = {}
        /\ practiceState' = [status |-> "no_cards"]
        /\ session' = [session EXCEPT !.pending = Settled(p)]
     \/ \E rows \in RowOrders(DueIds(date)) :
          /\ rows # <<>>
          /\ practiceState' = [status |-> "answering", question |-> rows[1]]
          /\ session' = [session EXCEPT
                           !.pending = Settled(p),
                           !.paused = IF session.expired THEN @ ELSE FALSE]
     \/ /\ practiceState' = [status |-> "error", retryable |-> TRUE]
        /\ session' = [session EXCEPT !.pending = Settled(p)]
  /\ UNCHANGED <<clock, card_schedules, user_stats, screenRest>>

\* handleTextSubmit up to its first await: timer.pause(), 'processing'.
HandleTextSubmit ==
  /\ Mounted
  /\ CanAwait
  /\ Status = "answering"
  /\ practiceState' = [status |-> "processing", question |-> OnScreen]
  /\ session' = [session EXCEPT
                   !.paused = TRUE,
                   !.pending = @ \cup {Pending("evaluateText", OnScreen)}]
  /\ UNCHANGED <<clock, card_schedules, user_stats, screenRest>>

\* handleTextSubmit / handleStopRecording after evaluateAnswer: saveReview and
\* 'feedback', or the catch: 'error', retryable as the ClaudeApiError says for
\* a typed answer and always for a spoken one.
EvaluationSettles(p) ==
  /\ Mounted
  /\ p \in session.pending
  /\ p.op \in {"evaluateText", "evaluateAudio"}
  /\ session' = [session EXCEPT !.pending = Settled(p)]
  /\ \/ \E score \in Scores :
          /\ p.question \in DOMAIN card_schedules
          /\ LET currentSchedule == [questionId     |-> p.question,
                                     nextReviewDate |-> ToISOString(clock),
                                     easeFactor     |-> D2_5,
                                     interval       |-> 0,
                                     repetitions    |-> 0]
             IN card_schedules' =
                  [card_schedules EXCEPT ![p.question] =
                     calculateNextReview(score, currentSchedule, clock)]
          /\ practiceState' = [status |-> "feedback", question |-> p.question]
     \/ \E retryable \in IF p.op = "evaluateText" THEN BOOLEAN ELSE {TRUE} :
          /\ practiceState' = [status |-> "error", retryable |-> retryable]
          /\ UNCHANGED card_schedules
  /\ UNCHANGED <<clock, user_stats, screenRest>>

\* handleStartRecording up to its await: the timer keeps running while
\* startRecording (permission request, recorder set-up) is in progress.
HandleStartRecording ==
  /\ Mounted
  /\ CanAwait
  /\ Status = "answering"
  /\ session' = [session EXCEPT
                   !.pending = @ \cup {Pending("startRecording", OnScreen)}]
  /\ UNCHANGED <<clock, card_schedules, user_stats, practiceState, screenRest>>

\* handleStartRecording after its await: 'recording', or an alert only.
StartRecordingSettles(p) ==
  /\ Mounted
  /\ p \in session.pending
  /\ p.op = "startRecording"
  /\ session' = [session EXCEPT !.pending = Settled(p)]
  /\ \/ practiceState' = [status |-> "recording", question |-> p.question]
     \/ UNCHANGED practiceState
  /\ UNCHANGED <<clock, card_schedules, user_stats, screenRest>>

\* handleStopRecording up to its first await: timer.pause(), 'processing'.
HandleStopRecording ==
  /\ Mounted
  /\ CanAwait
  /\ Status = "recording"
  /\ practiceState' = [status |-> "processing", question |-> OnScreen]
  /\ session' = [session EXCEPT
                   !.paused = TRUE,
                   !.pending = @ \cup {Pending("transcribe", OnScreen)}]
  /\ UNCHANGED <<clock, card_schedules, user_stats, screenRest>>

\* handleStopRecording after stopRecording and transcribeAudio: 'processing'
\* again and evaluateAnswer, or the catch.
TranscriptionSettles(p) ==
  /\ Mounted
  /\ p \in session.pending
  /\ p.op = "transcribe"
  /\ \/ /\ practiceState' = [status |-> "processing", question |-> p.question]
        /\ session' = [session EXCEPT !.pending =
                         Settled(p) \cup {Pending("evaluateAudio", p.question)}]
     \/ /\ practiceState' = [status |-> "error", retryable |-> TRUE]
        /\ session' = [session EXCEPT !.pending = Settled(p)]
  /\ UNCHANGED <<clock, card_schedules, user_stats, screenRest>>

\* handleCancelRecording up to its await.
HandleCancelRecording ==
  /\ Mounted
  /\ CanAwait
  /\ Status = "recording"
  /\ session' = [session EXCEPT
                   !.pending = @ \cup {Pending("cancelRecording", OnScreen)}]
  /\ UNCHANGED <<clock, card_schedules, user_stats, practiceState, screenRest>>

\* handleCancelRecording after its await: the practiceState it closed over
\* was 'recording', so it sets 'answering' with that state's question.
CancelRecordingSettles(p) ==
  /\ Mounted
  /\ p \in session.pending
  /\ p.op = "cancelRecording"
  /\ practiceState' = [status |-> "answering", question |-> p.question]
  /\ session' = [session EXCEPT !.pending = Settled(p)]
  /\ UNCHANGED <<clock, card_schedules, user_stats, screenRest>>

\* handleSessionEnd up to its await: 'session_complete', timer.pause() and
\* the endPracticeSession call.
SessionEndStarts(expired) ==
  /\ session.endCalls < MaxEndCalls
  /\ CanAwait
  /\ practiceState' = [status |-> "session_complete"]
  /\ session' = [session EXCEPT
                   !.expired = expired,
                   !.paused = TRUE,
                   !.endCalls = @ + 1,
                   !.pending = @ \cup {Pending("endPracticeSession", Null)}]

\* The running timer reaches 0 and the effect on timer.isExpired runs.
TimerExpires ==
  /\ Mounted
  /\ ~session.expired
  /\ ~session.paused
  /\ IF Status # "session_complete"
     THEN SessionEndStarts(TRUE)
     ELSE /\ session' = [session EXCEPT !.expired = TRUE]
          /\ UNCHANGED practiceState
  /\ UNCHANGED <<clock, card_schedules, user_stats, screenRest>>

\* "End Session" in the feedback view.
PressEndSession ==
  /\ Mounted
  /\ Status = "feedback"
  /\ SessionEndStarts(session.expired)
  /\ UNCHANGED <<clock, card_schedules, user_stats, screenRest>>

\* handleSessionEnd after its await: endPracticeSession has run updateStreak
\* and navigation.replace unmounts the screen, or endPracticeSession rejected
\* and the screen stays.
SessionEndSettles ==
  LET p == Pending("endPracticeSession", Null) IN
  /\ Mounted
  /\ p \in session.pending
  /\ \/ /\ user_stats' = IF PracticedToday(user_stats, clock)
                         THEN user_stats
                         ELSE newStats(user_stats, clock, tz)
        /\ session' = [session EXCEPT !.mounted = FALSE, !.pending = {}]
     \/ /\ session' = [session EXCEPT !.pending = Settled(p)]
        /\ UNCHANGED user_stats
  /\ UNCHANGED <<clock, card_schedules, practiceState, screenRest>>

\* "Back to Home" in the no_cards and error views: navigation.goBack().
PressBack ==
  /\ Mounted
  /\ Status \in {"no_cards", "error"}
  /\ session' = [session EXCEPT !.mounted = FALSE, !.pending = {}]
  /\ UNCHANGED <<clock, card_schedules, user_stats, practiceState, screenRest>>

InFlight == session.pending

NextScreen ==
  \/ PressLoadNext
  \/ LoadSettles
  \/ HandleTextSubmit
  \/ \E p \in InFlight : EvaluationSettles(p)
  \/ HandleStartRecording
  \/ \E p \in InFlight : StartRecordingSettles(p)
  \/ HandleStopRecording
  \/ \E p \in InFlight : TranscriptionSettles(p)
  \/ HandleCancelRecording
  \/ \E p \in InFlight : CancelRecordingSettles(p)
  \/ TimerExpires
  \/ PressEndSession
  \/ SessionEndSettles
  \/ PressBack

SpecScreen == InitScreen /\ [][NextScreen]_vars

\* ------------------------------------------------------------ withRetry
\* API_CONFIG
maxRetries == 2
retryDelayMs == 1000

\* What one call of the operation can settle with: a value, a ClaudeApiError
\* of one of the codes the operations construct (AUTH_ERROR is the one that
\* is not retryable), or an error of any other class.
Resolved == [kind |-> "value"]
ClaudeApiError(code, retryable) ==
  [kind |-> "ClaudeApiError", code |-> code, retryable |-> retryable]
Outcomes ==
  {Resolved, [kind |-> "Error"], ClaudeApiError("AUTH_ERROR", FALSE)}
  \cup {ClaudeApiError(code, TRUE) :
          code \in {"RATE_LIMIT", "NETWORK", "INVALID_RESPONSE",
                    "TIMEOUT", "UNKNOWN"}}

\* withRetry's catch block with every error thrown again, retryable or not,
\* only on the last attempt
ThrowsOnLastOnly(error, attempt) == attempt = maxRetries

\* withRetry's catch block: is the error thrown again?
Throws(error, attempt) ==
  \/ error.kind = "ClaudeApiError" /\ ~error.retryable
  \/ attempt = maxRetries

\* The exponential backoff before the next attempt, in ms.
Backoff(attempt) == retryDelayMs * 2^attempt

retryRest == <<clock, schedVars, storeVars, selVars, earlier, user_stats, tz,
               streakCall, lastEnd, practiceVars, session, connection>>

\* withRetry(operation) is called: attempt = 0 and the first operation().
WithRetry ==
  /\ retry.pc = "idle"
  /\ retry' = [retry EXCEPT !.pc = "operation", !.attempt = 0]
  /\ UNCHANGED retryRest

\* The awaited operation() settles: its value is returned, or its error is
\* caught and thrown again or followed by the backoff timer. Each settlement
\* is recorded with the attempt that made it.
OperationSettles(outcome) ==
  LET settled == [attempt |-> retry.attempt, outcome |-> outcome] IN
  /\ retry.pc = "operation"
  /\ retry.attempt <= maxRetries
  /\ retry' =
       IF outcome = Resolved
       THEN [retry EXCEPT !.pc = "returned",
                          !.outcomes = Append(@, settled),
                          !.result = settled]
       ELSE IF Throws(outcome, retry.attempt)
       THEN [retry EXCEPT !.pc = "thrown",
                          !.outcomes = Append(@, settled),
                          !.result = settled]
       ELSE [retry EXCEPT !.pc = "backoff",
                          !.outcomes = Append(@, settled),
                          !.delay = Backoff(retry.attempt)]
  /\ UNCHANGED retryRest

\* The backoff timer fires: attempt++ and the next operation().
BackoffEnds ==
  /\ retry.pc = "backoff"
  /\ retry' = [retry EXCEPT !.pc = "operation", !.attempt = @ + 1,
                            !.delay = 0]
  /\ UNCHANGED retryRest

NextRetry ==
  \/ WithRetry
  \/ \E outcome \in Outcomes : OperationSettles(outcome)
  \/ BackoffEnds

\* Every operation() settles and every setTimeout fires.
SpecRetry == Init /\ [][NextRetry]_vars /\ WF_vars(NextRetry)

\* ---------------------------------------------------------- getDatabase
\* connection.db: the module's db is not null. version, creates and seeds
\* describe the database file: the row of schema_version (0: no row), and how
\* often createTables and seedQuestions have run on it. For each caller: where
\* its getDatabase call stands, the currentVersion its initDatabase read, and
\* what it was handed when its promise resolved.
connRest == <<clock, schedVars, selVars, earlier, user_stats, tz,
              streakCall, lastEnd, practiceVars, session, retry>>

\* The rows seedQuestions inserts into questions.
SeededQuestions ==
  [id \in DOMAIN SeedCategory |->
     [category |-> SeedCategory[id], isCustom |-> FALSE]]

\* The app has just started, db = null, on a fresh install or on a database
\* file that an earlier run initialised.
InitConnection ==
  /\ clock = 0
  /\ schedule = createInitialSchedule("q1", 0)
  /\ lastIn = schedule
  /\ lastScore = 0
  /\ reviews = 0
  /\ selCall = NoCall
  /\ dueCards = <<>>
  /\ returned = <<>>
  /\ earlier = NoEarlier
  /\ StatsIdle
  /\ PracticeIdle
  /\ session = NoSession
  /\ retry = NoRetry
  /\ \/ /\ connection = [db |-> FALSE, version |-> 0,
                         creates |-> 0, seeds |-> 0] @@ NoCallers
        /\ questions = <<>>
        /\ card_schedules = <<>>
     \/ /\ connection = [Initialised EXCEPT !.db = FALSE]
        /\ questions = SeededQuestions
        /\ card_schedules = [id \in DOMAIN SeedCategory |-> InitialRow(id, 0)]

At(p, pc) == connection.pc[p] = pc
\* Is the database file the handle leads to initialised: tables created,
\* version row written, questions seeded?
Ready ==
  /\ connection.version = CURRENT_SCHEMA_VERSION
  /\ connection.creates >= 1
  /\ connection.seeds >= 1
Handed == IF Ready THEN "initialised" ELSE "uninitialised"

\* getDatabase up to its first await: 'return db' when db is set, or the
\* openDatabaseAsync call.
GetDatabase(p) ==
  /\ At(p, "idle")
  /\ connection' =
       IF connection.db
       THEN [connection EXCEPT !.pc[p] = "resolved", !.handed[p] = Handed]
       ELSE [connection EXCEPT !.pc[p] = "opening"]
  /\ UNCHANGED <<storeVars, connRest>>

\* openDatabaseAsync resolves: db is assigned and initDatabase starts
\* (PRAGMA, CREATE TABLE IF NOT EXISTS schema_version).
OpenResolves(p) ==
  /\ At(p, "opening")
  /\ connection' = [connection EXCEPT !.db = TRUE, !.pc[p] = "init"]
  /\ UNCHANGED <<storeVars, connRest>>

\* initDatabase: SELECT version FROM schema_version. At the current version
\* there is nothing to do and getDatabase returns db.
ReadVersion(p) ==
  /\ At(p, "init")
  /\ connection' =
       IF connection.version = 0
       THEN [connection EXCEPT !.currentVersion[p] = 0, !.pc[p] = "create"]
       ELSE [connection EXCEPT !.currentVersion[p] = connection.version,
                               !.pc[p] = "resolved", !.handed[p] = Handed]
  /\ UNCHANGED <<storeVars, connRest>>

\* initDatabase, currentVersion === 0: createTables.
CreateTables(p) ==
  /\ At(p, "create")
  /\ connection' = [connection EXCEPT !.creates = @ + 1, !.pc[p] = "insert"]
  /\ UNCHANGED <<storeVars, connRest>>

\* INSERT INTO schema_version: rejected by the primary key when the row is
\* there already, and then initDatabase and getDatabase reject.
InsertVersion(p) ==
  /\ At(p, "insert")
  /\ connection' =
       IF connection.version = 0
       THEN [connection EXCEPT !.version = CURRENT_SCHEMA_VERSION,
                               !.pc[p] = "seed"]
       ELSE [connection EXCEPT !.pc[p] = "rejected"]
  /\ UNCHANGED <<storeVars, connRest>>

\* seedQuestions, the end of initDatabase, and 'return db'. Every run inserts
\* the seed questions under new random ids: seeds counts the copies, and the
\* tables show the first.
SeedQuestions(p) ==
  /\ At(p, "seed")
  /\ questions' = SeededQuestions @@ questions
  /\ card_schedules' =
       [id \in DOMAIN SeedCategory |-> InitialRow(id, clock)] @@ card_schedules
  /\ \E after \in {[connection EXCEPT !.seeds = @ + 1]} :
       connection' = [after EXCEPT
                        !.pc[p] = "resolved",
                        !.handed[p] = IF after.version = CURRENT_SCHEMA_VERSION
                                         /\ after.creates >= 1
                                      THEN "initialised" ELSE "uninitialised"]
  /\ UNCHANGED connRest

NextConnection ==
  \E p \in Callers :
    \/ GetDatabase(p)
    \/ OpenResolves(p)
    \/ ReadVersion(p)
    \/ CreateTables(p)
    \/ InsertVersion(p)
    \/ SeedQuestions(p)

SpecConnection == InitConnection /\ [][NextConnection]_vars

\* ------------------------------------------------ scheduler properties
\* The latest call was a lapse / a success.
Lapsed == lastScore \in {1, 2}
Succeeded == lastScore \in {3, 4, 5}

\* 2^-40, the tolerance allowed to binary64 rounding, and |a - b| <= 2^-40
Tol == <<0, 1, 0, 0>>
Near(a, b) == IF BigLess(a, b) THEN BigLE(BigSub(b, a), Tol)
              ELSE BigLE(BigSub(a, b), Tol)
\* n + 1/2 as an exact magnitude
PlusHalf(n) == <<0, 0, Base \div 2, n>>
\* r is a nearest integer to the exact magnitude p, up to the tolerance
NearestInt(r, p) ==
  /\ r >= 0
  /\ (r >= 1 => BigLE(PlusHalf(r - 1), BigAdd(p, Tol)))
  /\ BigLE(p, BigAdd(PlusHalf(r), Tol))
\* 0.14 (the nearest binary64)
Dec0_14 == <<671104, 671088, 146800, 0>>

\* C1: in a chain of reviews that starts from the schedule of a new card,
\* every schedule has easeFactor >= 1.3 and 0 <= interval <= 365.
C1_ScheduleInvariant ==
  /\ DblLE(D1_3, schedule.easeFactor)
  /\ 0 <= schedule.interval
  /\ schedule.interval <= 365
\* a successful review whose grown interval is cut down to the cap
C1_Witness ==
  /\ Succeeded
  /\ lastIn.repetitions >= 2
  /\ lastIn.interval < 365
  /\ lastIn.interval * 2 > 365
  /\ schedule.interval = 365

\* C2: a score of 1 or 2 returns interval 1 and repetitions 0, whatever the
\* input schedule was.
C2_LapseResets ==
  Lapsed => schedule.interval = 1 /\ schedule.repetitions = 0
C2_Witness ==
  /\ lastScore = 2
  /\ lastIn.interval = 200
  /\ lastIn.repetitions = 3
  /\ schedule.interval = 1
  /\ schedule.repetitions = 0

\* C3: a score of exactly 3 is a success: repetitions becomes the input
\* repetitions + 1 and is never 0.
C3_ScoreThreeSucceeds ==
  lastScore = 3 =>
    /\ schedule.repetitions = lastIn.repetitions + 1
    /\ schedule.repetitions # 0
C3_Witness ==
  /\ lastScore = 3
  /\ lastIn.repetitions = 0
  /\ schedule.repetitions = 1

\* C4: a lapse returns the input easeFactor unchanged, and every call returns
\* the input questionId.
C4_LapseKeepsEase ==
  /\ Lapsed => schedule.easeFactor = lastIn.easeFactor
  /\ lastScore # 0 => schedule.questionId = lastIn.questionId
\* {easeFactor 2.5, interval 10, repetitions 3} with score 2
C4_Witness ==
  /\ lastScore = 2
  /\ lastIn.easeFactor = D2_5
  /\ lastIn.interval = 10
  /\ lastIn.repetitions = 3
  /\ schedule.easeFactor = D2_5
  /\ schedule.interval = 1
  /\ schedule.repetitions = 0

\* C5: a success increments repetitions; the interval is 1 when the new
\* repetitions is 1, 3 when it is 2, and otherwise the integer nearest to
\* (input interval * input easeFactor), the ease factor being the one before
\* this review's update; the interval is then capped at 365.
C5_SuccessInterval ==
  Succeeded =>
    /\ schedule.repetitions = lastIn.repetitions + 1
    /\ schedule.repetitions = 1 => schedule.interval = 1
    /\ schedule.repetitions = 2 => schedule.interval = 3
    /\ schedule.repetitions >= 3 =>
         \/ /\ schedule.interval < 365
            /\ NearestInt(schedule.interval,
                          BigMulInt(lastIn.easeFactor.m, lastIn.interval))
         \/ /\ schedule.interval = 365
            /\ BigLE(PlusHalf(364), BigAdd(BigMulInt(lastIn.easeFactor.m,
                                                     lastIn.interval), Tol))
\* third or later success, below the cap, with an ease factor that changes
C5_Witness ==
  /\ lastScore = 5
  /\ lastIn.repetitions = 2
  /\ lastIn.interval = 75
  /\ lastIn.easeFactor = D2_14
  /\ schedule.interval = 160
  /\ schedule.repetitions = 3

\* C6: a success changes easeFactor by +0.10 (score 5), 0 (score 4) or -0.14
\* (score 3), never below 1.3; under score 3 the ease factor strictly
\* decreases while it is above 1.3 and stays at 1.3 once there.
C6_EaseUpdate ==
  /\ lastScore = 5 =>
       Near(schedule.easeFactor.m, BigAdd(lastIn.easeFactor.m, D0_1.m))
  /\ lastScore = 4 => schedule.easeFactor = lastIn.easeFactor
  /\ lastScore = 3 =>
       /\ DblLE(D1_3, schedule.easeFactor)
       /\ \/ Near(BigAdd(schedule.easeFactor.m, Dec0_14), lastIn.easeFactor.m)
          \/ /\ schedule.easeFactor = D1_3
             /\ BigLE(lastIn.easeFactor.m, BigAdd(BigAdd(D1_3.m, Dec0_14), Tol))
       /\ DblLess(D1_3, lastIn.easeFactor) =>
            DblLess(schedule.easeFactor, lastIn.easeFactor)
       /\ lastIn.easeFactor = D1_3 => schedule.easeFactor = D1_3
  /\ (lastScore = 5 /\ lastIn.easeFactor = D2_5 /\ lastIn.repetitions = 0) =>
       /\ Hundredths(schedule.easeFactor) = 260
       /\ schedule.interval = 1
       /\ schedule.repetitions = 1
\* a score-3 review of a card whose ease factor is already at the floor
C6_Witness ==
  /\ lastScore = 3
  /\ lastIn.easeFactor = D1_3
  /\ schedule.easeFactor = D1_3

\* C16: calculateNextReview called with a score outside 1..5 is rejected: no
\* schedule comes back and the card's schedule stays as it was.
C16_InvalidScoreRejected ==
  (reviews = 1 /\ lastScore \notin Scores) => schedule = lastIn
\* What the function does with such a score: below 3 it is a lapse, above 5
\* a success whose ease change is +0.16.
InvalidScoreAccepted ==
  (reviews = 1 /\ lastScore \notin Scores) =>
    IF lastScore < 3
    THEN schedule.interval = 1 /\ schedule.repetitions = 0
    ELSE /\ schedule.repetitions = lastIn.repetitions + 1
         /\ Near(schedule.easeFactor.m,
                 BigAdd(lastIn.easeFactor.m, <<167776, 167772, 167772, 0>>))

\* ------------------------------------------------- selector properties
Selected == selCall.op \in {"getDueCards", "getDueCardsWithPriority"}
Prioritized == selCall.op = "getDueCardsWithPriority"
\* The category of the i-th returned card, looked up in the questions table
\* as it was at the call, and whether the call's preference list names it.
CategoryAt(i) == selCall.store.questions[returned[i].questionId].category
PreferredAt(i) ==
  \E k \in DOMAIN selCall.preferredCategories :
    selCall.preferredCategories[k] = CategoryAt(i)
\* Position of the first occurrence of a category in the preference list.
IndexAt(i) ==
  CHOOSE k \in DOMAIN selCall.preferredCategories :
    /\ selCall.preferredCategories[k] = CategoryAt(i)
    /\ \A l \in 1..(k - 1) : selCall.preferredCategories[l] # CategoryAt(i)
DateAt(i) == returned[i].nextReviewDate
NoDuplicates(list) == \A k, l \in DOMAIN list : k # l => list[k] # list[l]

\* C7: neither selector returns a schedule whose nextReviewDate is after the
\* now of the call, and when no card is due the result is the empty sequence.
C7_OnlyDueReturned ==
  Selected =>
    /\ \A i \in DOMAIN returned : StrLE(DateAt(i), selCall.now)
    /\ (\A id \in DOMAIN selCall.store.card_schedules :
          StrLess(selCall.now, selCall.store.card_schedules[id].nextReviewDate))
       => returned = <<>>
\* a call that returns some cards and leaves out one that is not due yet
C7_Witness ==
  /\ Prioritized
  /\ returned # <<>>
  /\ \E id \in DOMAIN selCall.store.card_schedules :
       StrLess(selCall.now, selCall.store.card_schedules[id].nextReviewDate)

\* C8: in the result of getDueCardsWithPriority every card of a preferred
\* category comes before every card of a category that is not preferred.
C8_PreferredFirst ==
  Prioritized =>
    \A i, j \in DOMAIN returned :
      (PreferredAt(i) /\ ~PreferredAt(j)) => i < j
\* a preferred card with the later date is placed before another card
C8_Witness ==
  /\ Prioritized
  /\ \E i, j \in DOMAIN returned :
       /\ PreferredAt(i) /\ ~PreferredAt(j)
       /\ StrLess(DateAt(j), DateAt(i))
       /\ i < j

\* C9: among the preferred cards returned by getDueCardsWithPriority, a card
\* whose category has the smaller index in preferredCategories comes first,
\* and cards with the same index are in ascending nextReviewDate order.
C9_PreferredByIndexThenDate ==
  Prioritized =>
    \A i, j \in DOMAIN returned :
      (PreferredAt(i) /\ PreferredAt(j)) =>
        /\ IndexAt(i) < IndexAt(j) => i < j
        /\ (IndexAt(i) = IndexAt(j) /\ i < j) => StrLE(DateAt(i), DateAt(j))
\* The same order holds for every preference list without a repeated entry.
PreferredOrderWithoutDuplicates ==
  (Prioritized /\ NoDuplicates(selCall.preferredCategories)) =>
    \A i, j \in DOMAIN returned :
      (PreferredAt(i) /\ PreferredAt(j)) =>
        /\ IndexAt(i) < IndexAt(j) => i < j
        /\ (IndexAt(i) = IndexAt(j) /\ i < j) => StrLE(DateAt(i), DateAt(j))

\* C10: among the cards of categories that are not preferred, the result of
\* getDueCardsWithPriority is in ascending nextReviewDate order, whatever
\* their categories, ease factors, intervals and repetitions are.
C10_OthersByDate ==
  Prioritized =>
    \A i, j \in DOMAIN returned :
      (~PreferredAt(i) /\ ~PreferredAt(j) /\ i < j) => StrLE(DateAt(i), DateAt(j))
\* two such cards with different dates, categories and ease factors
C10_Witness ==
  /\ Prioritized
  /\ \E i, j \in DOMAIN returned :
       /\ ~PreferredAt(i) /\ ~PreferredAt(j)
       /\ i < j
       /\ StrLess(DateAt(i), DateAt(j))
       /\ CategoryAt(i) # CategoryAt(j)
       /\ returned[i].easeFactor # returned[j].easeFactor

\* Every schedule row has its question row (the foreign key with ON DELETE
\* CASCADE, enforced by PRAGMA foreign_keys = ON), and so a category: the
\* join of the selectors' query finds a category for every due schedule.
SchedulesHaveQuestions == DOMAIN card_schedules \subseteq DOMAIN questions

\* C19: the schedule saveReview writes for a question is the scheduler's
\* result for the score applied to the schedule persisted for that question
\* before the write.
C19_SaveAppliesPersisted ==
  [][\A id \in QIds, score \in Scores :
       SaveReview(id, score) =>
         card_schedules'[id] = calculateNextReview(score, card_schedules[id], clock)]_vars
\* what the code does keep: no persisted schedule counts more than one
\* repetition or an interval above one day, and the ease factor is never
\* further than one update away from 2.5
SavedFromDefault ==
  \A id \in DOMAIN card_schedules :
    /\ card_schedules[id].repetitions <= 1
    /\ card_schedules[id].interval <= 1
    /\ \/ card_schedules[id].easeFactor = D2_5
       \/ \E score \in Scores :
            card_schedules[id].easeFactor = adjustEase(score, D2_5)

\* ------------------------------------------------ repeated selection
\* The latest call had the same inputs as the call before it: the same
\* tables, the same preference list and the same now.
SameInputs ==
  /\ Prioritized
  /\ earlier.call = selCall

\* C11: two calls of getDueCardsWithPriority with the same schedules, the
\* same categories, the same preferences and the same now return the same
\* sequence, also when due cards share preference index and nextReviewDate.
C11_SameInputsSameOutput ==
  SameInputs => returned = earlier.returned
\* When no two due cards agree on nextReviewDate, the two results agree.
RepeatableWithoutTies ==
  (SameInputs /\ \A i, j \in DOMAIN returned : i # j => DateAt(i) # DateAt(j))
    => returned = earlier.returned
\* The cards due at the latest call, in the tables as they were then, and
\* the nextReviewDate values of a sequence of schedules.
DueAtCall ==
  {id \in DOMAIN selCall.store.card_schedules :
     StrLE(selCall.store.card_schedules[id].nextReviewDate, selCall.now)}
Dates(schedules) == [i \in DOMAIN schedules |-> schedules[i].nextReviewDate]
\* The call before the latest one was getDueCards on the same tables at the
\* same now.
AfterGetDueCards ==
  /\ earlier.call.op = "getDueCards"
  /\ earlier.call.store = selCall.store
  /\ earlier.call.now = selCall.now

\* C18: with an empty preferredCategories list getDueCardsWithPriority
\* returns exactly the due cards, in ascending nextReviewDate order, with
\* the same sequence of nextReviewDate values as getDueCards returns for
\* the same store and now.
C18_EmptyPreferencesByDate ==
  (Prioritized /\ selCall.preferredCategories = <<>>) =>
    /\ {returned[i].questionId : i \in DOMAIN returned} = DueAtCall
    /\ Len(returned) = Cardinality(DueAtCall)
    /\ \A i, j \in DOMAIN returned : i < j => StrLE(DateAt(i), DateAt(j))
    /\ AfterGetDueCards => Dates(returned) = Dates(earlier.returned)
\* such a call after getDueCards, with cards on different dates, that
\* returns the cards in another order than getDueCards did
C18_Witness ==
  /\ Prioritized
  /\ selCall.preferredCategories = <<>>
  /\ AfterGetDueCards
  /\ \E i, j \in DOMAIN returned : DateAt(i) # DateAt(j)
  /\ returned # earlier.returned

\* ------------------------------------------------- streak properties
\* The instant an ISO string denotes, and calendar dates of an instant: on
\* the device's local calendar and on the UTC calendar.
Instant(iso) == iso[1] * TicksPerDay + iso[2]
LocalDate(t) == (t + tz) \div TicksPerDay
UtcDate(t) == t \div TicksPerDay
\* The latest session end ran on the stats as stored (no other write came
\* between its read and its end).
EndedAlone == lastEnd.done /\ lastEnd.stats = lastEnd.before
HadPractice == EndedAlone /\ lastEnd.before.last_practice_date # Null
LastLocalDate == LocalDate(Instant(lastEnd.before.last_practice_date))
LastUtcDate == UtcDate(Instant(lastEnd.before.last_practice_date))

\* C12: a session end on the same calendar date as lastPracticeDate leaves
\* currentStreak, longestStreak and lastPracticeDate unchanged.
C12_SameDayUnchanged ==
  (HadPractice /\ LocalDate(lastEnd.now) = LastLocalDate)
    => lastEnd.after = lastEnd.before
\* The same with both dates read on the UTC calendar.
SameUtcDayUnchanged ==
  (HadPractice /\ UtcDate(lastEnd.now) = LastUtcDate)
    => lastEnd.after = lastEnd.before

\* C13: a session end on the calendar day right after lastPracticeDate adds
\* one to currentStreak, sets lastPracticeDate to the session date and leaves
\* longestStreak as it is when it is still at least the new currentStreak.
C13_NextDayIncrements ==
  (HadPractice /\ LocalDate(lastEnd.now) = LastLocalDate + 1)
    => /\ lastEnd.after.current_streak = lastEnd.before.current_streak + 1
       /\ lastEnd.after.last_practice_date # Null
       /\ LocalDate(Instant(lastEnd.after.last_practice_date))
            = LocalDate(lastEnd.now)
       /\ (lastEnd.before.longest_streak >= lastEnd.before.current_streak + 1
             => lastEnd.after.longest_streak = lastEnd.before.longest_streak)
NextUtcDayIncrements ==
  (HadPractice /\ UtcDate(lastEnd.now) = LastUtcDate + 1)
    => /\ lastEnd.after.current_streak = lastEnd.before.current_streak + 1
       /\ lastEnd.after.last_practice_date = ToISOString(lastEnd.now)
       /\ (lastEnd.before.longest_streak >= lastEnd.before.current_streak + 1
             => lastEnd.after.longest_streak = lastEnd.before.longest_streak)

\* C14: a session end with no lastPracticeDate, or two or more calendar days
\* after it, sets currentStreak to 1 and lastPracticeDate to the session
\* date, and does not lower longestStreak.
C14_GapRestarts ==
  (EndedAlone /\ (\/ lastEnd.before.last_practice_date = Null
                  \/ LocalDate(lastEnd.now) >= LastLocalDate + 2))
    => /\ lastEnd.after.current_streak = 1
       /\ lastEnd.after.last_practice_date # Null
       /\ LocalDate(Instant(lastEnd.after.last_practice_date))
            = LocalDate(lastEnd.now)
       /\ lastEnd.after.longest_streak >= lastEnd.before.longest_streak
UtcGapRestarts ==
  (EndedAlone /\ (\/ lastEnd.before.last_practice_date = Null
                  \/ UtcDate(lastEnd.now) >= LastUtcDate + 2))
    => /\ lastEnd.after.current_streak = 1
       /\ lastEnd.after.last_practice_date = ToISOString(lastEnd.now)
       /\ lastEnd.after.longest_streak >= lastEnd.before.longest_streak

\* C15: whatever the interleaving of the steps of session ends and of
\* progress resets, the stored longestStreak >= currentStreak >= 0.
C15_LongestAtLeastCurrent ==
  /\ user_stats.longest_streak >= user_stats.current_streak
  /\ user_stats.current_streak >= 0
\* a session end wrote over a change made after its read, and the longest
\* streak is above the current one
C15_Witness ==
  /\ lastEnd.done
  /\ lastEnd.stats # lastEnd.before
  /\ lastEnd.after # lastEnd.before
  /\ user_stats = lastEnd.after
  /\ user_stats.longest_streak > user_stats.current_streak
  /\ user_stats.current_streak > 0

\* C23: the calendar dates compared are local dates: in every time zone and
\* at every time of day a session end on the local date of lastPracticeDate
\* does not count again, and one on the next local date adds one to
\* currentStreak.
C23_LocalDatesDecide ==
  HadPractice =>
    /\ LocalDate(lastEnd.now) = LastLocalDate
         => lastEnd.after.current_streak = lastEnd.before.current_streak
    /\ LocalDate(lastEnd.now) = LastLocalDate + 1
         => lastEnd.after.current_streak = lastEnd.before.current_streak + 1
\* what the code does keep: the UTC dates decide, in every time zone
UtcDatesDecide ==
  HadPractice =>
    /\ UtcDate(lastEnd.now) = LastUtcDate
         => lastEnd.after.current_streak = lastEnd.before.current_streak
    /\ UtcDate(lastEnd.now) = LastUtcDate + 1
         => lastEnd.after.current_streak = lastEnd.before.current_streak + 1
    /\ UtcDate(lastEnd.now) > LastUtcDate + 1
         => lastEnd.after.current_streak = 1

\* ------------------------------------------------- practice properties
\* The preference list stored when the question on screen was loaded, the
\* category of that question, and the preferred categories that had a due
\* card at the load.
StoredPreferences ==
  IF user_preferences = Null THEN <<>> ELSE user_preferences.preferredCategories
Presented == practiceState.status = "answering" /\ selCall.op = "getDueCards"
PresentedCategory == selCall.store.questions[practiceState.question].category
DuePreferred ==
  {selCall.store.questions[id].category : id \in DueAtCall}
    \cap {StoredPreferences[i] : i \in DOMAIN StoredPreferences}

\* C20: whenever a due card of a preferred category exists, the card
\* loadNextQuestion presents belongs to the highest-priority preferred
\* category that has a due card.
C20_PresentsPreferred ==
  (Presented /\ DuePreferred # {}) =>
    /\ PresentedCategory \in DuePreferred
    /\ \A cat \in DuePreferred :
         PriorityGet(StoredPreferences, PresentedCategory)
           <= PriorityGet(StoredPreferences, cat)
\* what the code does keep: the presented card is a card with the earliest
\* nextReviewDate among the due cards
PresentsEarliestDue ==
  Presented =>
    /\ practiceState.question \in DueAtCall
    /\ \A id \in DueAtCall :
         StrLE(selCall.store.card_schedules[practiceState.question].nextReviewDate,
               selCall.store.card_schedules[id].nextReviewDate)

\* -------------------------------------------- perfect review properties
\* C21: under repeated reviews with score 5 from the default schedule the
\* ease factor strictly increases at every review, the interval never
\* decreases, and the interval eventually is 365 and stays 365.
C21_PerfectReviewsGrow ==
  /\ [][reviews' = reviews + 1 =>
         /\ DblLess(schedule.easeFactor, schedule'.easeFactor)
         /\ schedule'.interval >= schedule.interval]_vars
  /\ <>[](schedule.interval = MaxInterval)
\* a review with score 5 of a card already at the cap
C21_Witness ==
  /\ lastScore = 5
  /\ lastIn.interval = MaxInterval
  /\ schedule.interval = MaxInterval
  /\ DblLess(lastIn.easeFactor, schedule.easeFactor)

\* Every time from 0 to a tick past the latest date a review can return.
DueHorizon == 0..(AddDays(MaxClockInput, MaxInterval) + 1)
\* The WHERE clause of the selectors: next_review_date <= now, as text.
DueAt(date, now) == StrLE(date, ToISOString(now))

\* C22: the nextReviewDate calculateNextReview returns is the time of the
\* review plus the returned interval in days, so the card is due exactly
\* from that time on.
C22_DateIsReviewPlusInterval ==
  lastScore # 0 =>
    /\ schedule.nextReviewDate
         = ToISOString(clock + schedule.interval * TicksPerDay)
    /\ \A now \in DueHorizon :
         DueAt(schedule.nextReviewDate, now)
           <=> now >= clock + schedule.interval * TicksPerDay
\* a review in the second half of a day whose grown interval is cut to the cap
C22_Witness ==
  /\ Succeeded
  /\ clock % TicksPerDay = 1
  /\ lastIn.interval = 200
  /\ lastIn.repetitions >= 2
  /\ schedule.interval = MaxInterval
  /\ schedule.nextReviewDate = <<MaxInterval, 1>>

C25_OneSchedulePerQuestion ==
  [][(DOMAIN card_schedules' = DOMAIN questions')
     /\ (\A id \in (DOMAIN card_schedules') \ (DOMAIN card_schedules) :
          card_schedules'[id] = createInitialSchedule(id, clock))]_vars
\* what the code does keep: no schedule is without its question, and when
\* every addQuestion runs to its end no question is without its schedule
NoScheduleWithoutQuestion == DOMAIN card_schedules \subseteq DOMAIN questions
NoQuestionWithoutSchedule == DOMAIN questions \subseteq DOMAIN card_schedules

\* ------------------------------------------------- interval properties
\* C26: in a chain of reviews from the default schedule the interval after
\* every review is at least 1, so the card is not due at the time of the
\* review that has just been made.
C26_ReviewedCardNotDue ==
  reviews > 0 =>
    /\ schedule.interval >= 1
    /\ ~DueAt(schedule.nextReviewDate, clock)
\* the first success after a lapse: the interval stays at its least value
C26_Witness ==
  /\ Succeeded
  /\ reviews > 1
  /\ lastIn.repetitions = 0
  /\ lastIn.interval = 1
  /\ schedule.interval = 1
  /\ schedule.nextReviewDate = ToISOString(AddDays(clock, 1))

\* C27: in a chain of reviews from the default schedule a successful review
\* (score 3, 4 or 5) never returns an interval below the one passed in.
C27_SuccessNeverShortens ==
  Succeeded => schedule.interval >= lastIn.interval
\* a success at the ease factor floor after two or more successes: the
\* slowest growth there is
C27_Witness ==
  /\ Succeeded
  /\ lastIn.easeFactor = D1_3
  /\ lastIn.repetitions >= 2
  /\ schedule.interval > lastIn.interval
  /\ schedule.interval < MaxInterval

\* ------------------------------------------------- practice screen properties
\* C28: once the practice screen's state is session_complete it never changes
\* again, whatever promise settles afterwards, and endPracticeSession is called
\* at most once in a session.
C28_SessionCompleteIsFinal ==
  [][/\ (Status = "session_complete") =>
          (practiceState'.status = "session_complete")
     /\ session'.endCalls <= 1]_vars

\* ------------------------------------------------------ withRetry properties
Calls == Len(retry.outcomes)
Ended == retry.pc \in {"returned", "thrown"}
Failed(k) == retry.outcomes[k].outcome # Resolved
NotRetryable(k) ==
  /\ retry.outcomes[k].outcome.kind = "ClaudeApiError"
  /\ ~retry.outcomes[k].outcome.retryable

\* C29: withRetry calls its operation at most maxRetries + 1 = 3 times and
\* always ends. The first successful call ends it, returning that call's
\* value; a ClaudeApiError that is not retryable ends it, thrown again with no
\* further call; the error of call maxRetries + 1 is thrown again; and nothing
\* is called after the end.
C29_WithRetryEnds ==
  /\ [](/\ Calls <= maxRetries + 1
        /\ maxRetries + 1 = 3
        /\ \A k \in 1..Calls :
             /\ retry.outcomes[k].attempt = k - 1
             /\ ~Failed(k) =>
                  /\ k = Calls
                  /\ retry.pc = "returned"
                  /\ retry.result = retry.outcomes[k]
             /\ NotRetryable(k) =>
                  /\ k = Calls
                  /\ retry.pc = "thrown"
                  /\ retry.result = retry.outcomes[k]
             /\ (Failed(k) /\ k = maxRetries + 1) =>
                  /\ retry.pc = "thrown"
                  /\ retry.result = retry.outcomes[k]
             /\ (Failed(k) /\ ~NotRetryable(k) /\ k <= maxRetries) =>
                  ~Ended \/ k < Calls)
  /\ [][Ended => retry' = retry]_vars
  /\ (retry.pc = "operation") ~> Ended

\* Three calls have failed with retryable errors and the third error, a
\* different one from the first two, is the one thrown.
C29_Witness ==
  /\ retry.pc = "thrown"
  /\ Calls = maxRetries + 1
  /\ \A k \in 1..Calls : Failed(k) /\ ~NotRetryable(k)
  /\ retry.result = retry.outcomes[Calls]
  /\ retry.outcomes[1].outcome # retry.outcomes[Calls].outcome

\* ---------------------------------------------------- getDatabase properties
\* C30: however concurrent getDatabase calls interleave, createTables and
\* seedQuestions run at most once on a database (once on a fresh install), no
\* call is rejected, and a call resolves only with an initialised database.
C30_InitialisedOnce ==
  /\ connection.creates <= 1
  /\ connection.seeds <= 1
  /\ \A p \in Callers :
       /\ ~At(p, "rejected")
       /\ At(p, "resolved") =>
            /\ connection.handed[p] = "initialised"
            /\ connection.creates = 1
            /\ connection.seeds = 1


============================================================================
